---- MODULE Spec2Model ----
(***************************************************************************)
(* Resource and data-source handlers of the provider: the RDS cluster      *)
(* snapshot data source, the Elastic Beanstalk configuration template, the *)
(* EC2 transit gateway route table and the transit gateway peering         *)
(* attachment accepter.                                                    *)
(*                                                                         *)
(* One action is one invocation of a handler by the engine.  The remote    *)
(* API is the environment: the outcome of every SDK call is an input of    *)
(* the action.  The state after an action is what the handler left in its  *)
(* ResourceData (kind, id, attrs), what it returned (hasError) and what it *)
(* sent (calls, reqs), next to the inputs it was given (input).  The       *)
(* engine then takes the result: it keeps the resource's id and drops what *)
(* belonged to the invocation, and only then calls the next handler.       *)
(***************************************************************************)
EXTENDS Integers, Sequences, FiniteSets, TLC

\* Bounds of the model.
MaxSnapshots == 3
MaxTime == 2
MaxSettings == 2
MaxResults == 2

VARIABLES
    kind,       \* which resource or data source the ResourceData belongs to
    id,         \* d.Id()
    isNew,      \* d.IsNewResource() as the handler saw it
    handler,    \* the handler that ran last
    input,      \* the configuration and the API outcomes the handler was given
    calls,      \* the SDK calls the handler issued, in order, with their results
    hasError,   \* the returned diagnostics hold an error
    attrs,      \* the attributes the handler wrote with d.Set
    lookup,     \* how the Read step classified the lookup of the resource itself
    reqs,       \* the UpdateConfigurationTemplate requests of the option settings update
    finding,    \* what FindConfigurationSettingsByTwoPartKey returned to the Read step
    snapshots,  \* resp.DBClusterSnapshots as the handler left the slice
    snapshot    \* the snapshot the data source selected

vars == <<kind, id, isNew, handler, input, calls, hasError, attrs, lookup, reqs,
          finding, snapshots, snapshot>>

Call(op, res) == [op |-> op, res |-> res]

\* The finder of the configuration template was not called.
NoFinding == [settings |-> "nil", err |-> "none"]

\* What the finder returned in a handler's result, if the handler called it.
Finding(r) == IF "finding" \in DOMAIN r THEN r.finding ELSE NoFinding

\* d.GetOk on a string attribute: ok only for a non-zero value.
GetOk(v) == v # ""

(***************************************************************************)
(* RDS cluster snapshot data source                                        *)
(***************************************************************************)

SnapshotIds == <<"snap1", "snap2", "snap3", "snap4", "snap5">>

\* A *rds.DBClusterSnapshot: t = 0 stands for a nil SnapshotCreateTime.
DBClusterSnapshot(i, t) == [id |-> SnapshotIds[i], hasTime |-> t > 0, time |-> t]

NoSnapshot == [id |-> "", hasTime |-> FALSE, time |-> 0]

\* The lists DescribeDBClusterSnapshots can return.
SnapshotLists ==
    UNION {{[i \in 1..n |-> DBClusterSnapshot(i, f[i])] : f \in [1..n -> 0..MaxTime]} :
           n \in 0..MaxSnapshots}

Less_nilLast(a, i, j) ==
    IF ~a[j].hasTime THEN TRUE
    ELSE IF ~a[i].hasTime THEN FALSE
    ELSE a[i].time < a[j].time

\* rdsClusterSnapshotSort.Less
Less(a, i, j) ==
    IF ~a[i].hasTime THEN TRUE
    ELSE IF ~a[j].hasTime THEN FALSE
    ELSE a[i].time < a[j].time

\* rdsClusterSnapshotSort.Swap
Swap(a, i, j) == [a EXCEPT ![i] = a[j], ![j] = a[i]]

\* The inner loop of insertion sort: for j := i; j > a && Less(j, j-1); j--.
RECURSIVE insertInto(_, _)
insertInto(a, j) ==
    IF j > 1 /\ Less(a, j, j - 1) THEN insertInto(Swap(a, j, j - 1), j - 1) ELSE a

RECURSIVE insertionSort(_, _)
insertionSort(a, i) ==
    IF i > Len(a) THEN a ELSE insertionSort(insertInto(a, i), i + 1)

\* sort.Sort(rdsClusterSnapshotSort(a)): on slices this short the library runs
\* its insertion sort over Len, Less and Swap.
Sort(a) == insertionSort(a, 2)

mostRecentClusterSnapshot_first(a) == Sort(a)[1]

mostRecentClusterSnapshot(a) == Sort(a)[Len(a)]

\* The attributes dataSourceClusterSnapshotRead copies from the snapshot.
SnapshotAttrs(s) ==
    {"allocated_storage", "availability_zones", "db_cluster_identifier",
     "db_cluster_snapshot_arn", "db_cluster_snapshot_identifier", "engine",
     "engine_version", "kms_key_id", "license_model", "port", "snapshot_type",
     "source_db_cluster_snapshot_arn", "status", "storage_encrypted", "vpc_id"}
    \cup (IF s.hasTime THEN {"snapshot_create_time"} ELSE {})

DsResult(cs, err, as, slice, s, i) ==
    [calls |-> cs, hasError |-> err, attrs |-> as, snapshots |-> slice,
     snapshot |-> s, id |-> i]

noSelectionCriterion_never(in) == FALSE

\* Neither db_cluster_identifier nor db_cluster_snapshot_identifier is set.
noSelectionCriterion(in) ==
    ~GetOk(in.db_cluster_identifier) /\ ~GetOk(in.db_cluster_snapshot_identifier)

ambiguousResult_never(in) == FALSE

\* More than one snapshot came back and most_recent is false.
ambiguousResult(in) == Len(in.resp) > 1 /\ ~in.most_recent

dataSourceClusterSnapshotRead(in) ==
    LET describe == Call("DescribeDBClusterSnapshots", in.describeRes)
        listTags == Call("ListTags", in.listTagsRes)
    IN  IF noSelectionCriterion(in)
        THEN DsResult(<<>>, TRUE, {}, in.resp, NoSnapshot, "")
        ELSE IF in.describeRes # "ok"
        THEN DsResult(<<describe>>, TRUE, {}, in.resp, NoSnapshot, "")
        ELSE IF Len(in.resp) < 1
        THEN DsResult(<<describe>>, TRUE, {}, in.resp, NoSnapshot, "")
        ELSE IF ambiguousResult(in)
        THEN DsResult(<<describe>>, TRUE, {}, in.resp, NoSnapshot, "")
        ELSE LET \* mostRecentClusterSnapshot sorts the response's slice in place
                 slice == IF Len(in.resp) > 1 THEN Sort(in.resp) ELSE in.resp
                 s == IF Len(in.resp) > 1 THEN mostRecentClusterSnapshot(in.resp)
                      ELSE in.resp[1]
             IN  IF in.listTagsRes # "ok"
                 THEN DsResult(<<describe, listTags>>, TRUE, SnapshotAttrs(s), slice, s, s.id)
                 ELSE DsResult(<<describe, listTags>>, FALSE,
                               SnapshotAttrs(s) \cup {"tags"}, slice, s, s.id)

\* The inputs of one read: the configuration, and what the API answers.  An
\* answer that the handler cannot reach is fixed (no list after a failed
\* describe, no ListTags outcome without a selected snapshot).
DsInputs ==
    {in \in [db_cluster_identifier : {"", "cluster1"},
             db_cluster_snapshot_identifier : {"", "snap1"},
             snapshot_type : {"", "manual"},
             include_shared : BOOLEAN,
             include_public : BOOLEAN,
             most_recent : BOOLEAN,
             describeRes : {"ok", "error"},
             resp : SnapshotLists,
             listTagsRes : {"ok", "error"}] :
        /\ (in.describeRes # "ok" => in.resp = <<>>)
        /\ (~GetOk(in.db_cluster_identifier) /\ ~GetOk(in.db_cluster_snapshot_identifier)
              => in.describeRes = "ok" /\ in.resp = <<>>)
        /\ (Len(in.resp) < 1 \/ (Len(in.resp) > 1 /\ ~in.most_recent)
              => in.listTagsRes = "ok")}

\* The engine reads the data source: the handler gets a fresh ResourceData.
DataSourceClusterSnapshotRead ==
    /\ handler = "none"
    /\ \E in \in DsInputs :
        LET r == dataSourceClusterSnapshotRead(in)
        IN  /\ kind' = "cluster_snapshot"
            /\ id' = r.id
            /\ isNew' = FALSE
            /\ handler' = "dataSourceClusterSnapshotRead"
            /\ input' = in
            /\ calls' = r.calls
            /\ hasError' = r.hasError
            /\ attrs' = r.attrs
            /\ lookup' = "none"
            /\ reqs' = <<>>
            /\ finding' = NoFinding
            /\ snapshots' = r.snapshots
            /\ snapshot' = r.snapshot

(***************************************************************************)
(* Elastic Beanstalk configuration template                                *)
(***************************************************************************)

\* The option settings of the model: the values of three options, two of
\* which share a namespace and two of which share a name.
OptionKeys == {<<"ns1", "opt1">>, <<"ns1", "opt2">>, <<"ns2", "opt1">>}

OptionValues == {"v1", "v2"}

\* An elasticbeanstalk.ConfigurationOptionSetting.
ConfigurationOptionSetting(k, v) == [Namespace |-> k[1], OptionName |-> k[2], Value |-> v]

Settings == {ConfigurationOptionSetting(k, v) : k \in OptionKeys, v \in OptionValues}

\* The values a "setting" attribute can hold: a schema.Set hashed by
\* optionSettingValueHash, which tells settings apart by namespace, name and
\* value.
SettingSets == {s \in SUBSET Settings : Cardinality(s) <= MaxSettings}

\* The order in which a schema.Set lists its elements (by hash code): some
\* fixed order of the settings.
SettingOrder ==
    <<ConfigurationOptionSetting(<<"ns1", "opt1">>, "v1"),
      ConfigurationOptionSetting(<<"ns2", "opt1">>, "v2"),
      ConfigurationOptionSetting(<<"ns1", "opt2">>, "v1"),
      ConfigurationOptionSetting(<<"ns1", "opt1">>, "v2"),
      ConfigurationOptionSetting(<<"ns2", "opt1">>, "v1"),
      ConfigurationOptionSetting(<<"ns1", "opt2">>, "v2")>>

\* extractOptionSettings: the elements of the set as a slice, in the set's order.
extractOptionSettings(s) == SelectSeq(SettingOrder, LAMBDA x : x \in s)

\* schema.Set.Difference
Difference(s, t) == s \ t

\* d.HasChange("setting")
HasChange(o, n) == o # n

\* The test of the filter loop: r and a are the same option.
sameOption(r, a) == r.Namespace = a.Namespace /\ r.OptionName = a.OptionName

\* for _, a := range add { if same option { continue }; remove = append(remove, r) }
RECURSIVE rangeAdd(_, _, _, _)
rangeAdd(remove, r, add, k) ==
    IF k > Len(add) THEN remove
    ELSE IF sameOption(r, add[k]) THEN rangeAdd(remove, r, add, k + 1)
    ELSE rangeAdd(Append(remove, r), r, add, k + 1)

\* for _, r := range rm { ... }
RECURSIVE rangeRm(_, _, _, _)
rangeRm(remove, rm, add, i) ==
    IF i > Len(rm) THEN remove
    ELSE rangeRm(rangeAdd(remove, rm[i], add, 1), rm, add, i + 1)

\* An elasticbeanstalk.OptionSpecification.
OptionSpecification(elem) == [Namespace |-> elem.Namespace, OptionName |-> elem.OptionName]

\* The request of the option settings update.
UpdateConfigurationTemplateInput(add, remove) ==
    [OptionSettings |-> add,
     OptionsToRemove |-> [i \in 1..Len(remove) |-> OptionSpecification(remove[i])]]

validationFailed_ignored(res) == FALSE

\* if err != nil { return err } after ValidateConfigurationSettings
validationFailed(res) == res # "ok"

resourceConfigurationTemplateOptionSettingsUpdate(in) ==
    IF ~HasChange(in.o, in.n)
    THEN [calls |-> <<>>, err |-> FALSE, reqs |-> <<>>]
    ELSE LET validate == Call("ValidateConfigurationSettings", in.validateRes)
             rm == extractOptionSettings(Difference(in.o, in.n))
             add == extractOptionSettings(Difference(in.n, in.o))
             remove == rangeRm(<<>>, rm, add, 1)
             req == UpdateConfigurationTemplateInput(add, remove)
         IN  IF validationFailed(in.validateRes)
             THEN [calls |-> <<validate>>, err |-> TRUE, reqs |-> <<>>]
             ELSE [calls |-> <<validate, Call("UpdateConfigurationTemplate", in.updateRes)>>,
                   err |-> in.updateRes # "ok",
                   reqs |-> <<req>>]

\* resourceConfigurationTemplateDescriptionUpdate
resourceConfigurationTemplateDescriptionUpdate(in) ==
    [calls |-> <<Call("UpdateConfigurationTemplate", in.descRes)>>,
     err |-> in.descRes # "ok"]

\* An API error: its code and the text its message contains.
NoError == [code |-> "", message |-> ""]

APIErrors ==
    [code : {"InvalidParameterValue", "Throttling"},
     message : {"No Configuration Template named", "No Application named", "other"}]

ErrMessageContains_codeOnly(err, code, message) == err.code = code

\* tfawserr.ErrMessageContains
ErrMessageContains(err, code, message) == err.code = code /\ err.message = message

\* The answers of DescribeConfigurationSettings: an error, or an output that
\* is nil or holds a list of entries, each nil or a settings description.
DescribeOutputs ==
    {[isNil |-> TRUE, ConfigurationSettings |-> <<>>]}
    \cup {[isNil |-> FALSE, ConfigurationSettings |-> l] :
            l \in UNION {[1..n -> {"nil", "settings"}] : n \in 0..MaxResults}}

DescribeAnswers ==
    {[err |-> e, output |-> [isNil |-> TRUE, ConfigurationSettings |-> <<>>]] : e \in APIErrors}
    \cup {[err |-> NoError, output |-> o] : o \in DescribeOutputs}

FindConfigurationSettingsByTwoPartKey(answer) ==
    LET err == answer.err
        output == answer.output
    IN  IF \/ ErrMessageContains(err, "InvalidParameterValue", "No Configuration Template named")
           \/ ErrMessageContains(err, "InvalidParameterValue", "No Application named")
        THEN [settings |-> "nil", err |-> "NotFoundError"]
        ELSE IF err # NoError
        THEN [settings |-> "nil", err |-> "APIError"]
        ELSE IF \/ output.isNil
                \/ Len(output.ConfigurationSettings) = 0
                \/ output.ConfigurationSettings[1] = "nil"
        THEN [settings |-> "nil", err |-> "EmptyResultError"]
        ELSE IF Len(output.ConfigurationSettings) > 1
        THEN [settings |-> "nil", err |-> "TooManyResultsError"]
        ELSE [settings |-> output.ConfigurationSettings[1], err |-> "nil"]

\* tfresource.NotFound(err): true of a NotFoundError, false of no error and of
\* an API error; whether the finder's own empty-result and too-many-results
\* errors count as not found is decided outside these files, and is an input.
NotFound(err, resultErrorsAreNotFound) ==
    \/ err = "NotFoundError"
    \/ err \in {"EmptyResultError", "TooManyResultsError"} /\ resultErrorsAreNotFound

removedFromState_never(new, notFound) == FALSE

\* if !d.IsNewResource() && tfresource.NotFound(err): the Read handlers drop
\* the resource from the state.
removedFromState(new, notFound) == ~new /\ notFound

ReadResult(i, cs, err, as, l) ==
    [id |-> i, calls |-> cs, hasError |-> err, attrs |-> as, lookup |-> l]

resourceConfigurationTemplateRead(dId, new, in) ==
    LET found == FindConfigurationSettingsByTwoPartKey(in.describe)
        notFound == NotFound(found.err, in.resultErrorsAreNotFound)
        describe == Call("DescribeConfigurationSettings",
                         IF in.describe.err = NoError THEN "ok" ELSE "error")
        result ==
            IF removedFromState(new, notFound)
            THEN ReadResult("", <<describe>>, FALSE, {}, "notfound")
            ELSE IF found.err # "nil"
            THEN ReadResult(dId, <<describe>>, TRUE, {},
                            IF notFound THEN "notfound" ELSE "error")
            ELSE ReadResult(dId, <<describe>>, FALSE,
                            {"application", "description", "name", "solution_stack_name"},
                            "found")
    IN  [finding |-> found] @@ result

\* What a read of the template is given: the describe answer, and how
\* tfresource.NotFound takes the finder's own errors.
TemplateReadInputs ==
    {r \in [describe : DescribeAnswers, resultErrorsAreNotFound : BOOLEAN] :
        r.resultErrorsAreNotFound
            => FindConfigurationSettingsByTwoPartKey(r.describe).err
                 \in {"EmptyResultError", "TooManyResultsError"}}

NoRead == [describe |-> [err |-> NoError,
                         output |-> [isNil |-> TRUE, ConfigurationSettings |-> <<>>]],
           resultErrorsAreNotFound |-> FALSE]

HandlerResult(i, cs, err, as, l, rs) ==
    [id |-> i, calls |-> cs, hasError |-> err, attrs |-> as, lookup |-> l, reqs |-> rs]

\* A handler that ends with the read-back: return append(diags, ...Read(ctx, d, meta)...)
WithRead(cs, rs, r) ==
    [finding |-> Finding(r)]
        @@ HandlerResult(r.id, cs \o r.calls, r.hasError, r.attrs, r.lookup, rs)

resourceConfigurationTemplateCreate_idFirst(in) ==
    IF in.createRes # "ok"
    THEN HandlerResult(in.name, <<Call("CreateConfigurationTemplate", in.createRes)>>,
                       TRUE, {}, "none", <<>>)
    ELSE WithRead(<<Call("CreateConfigurationTemplate", in.createRes)>>, <<>>,
                  resourceConfigurationTemplateRead(in.name, TRUE, in.read))

resourceConfigurationTemplateCreate(in) ==
    IF in.createRes # "ok"
    THEN HandlerResult("", <<Call("CreateConfigurationTemplate", in.createRes)>>,
                       TRUE, {}, "none", <<>>)
    ELSE WithRead(<<Call("CreateConfigurationTemplate", in.createRes)>>, <<>>,
                  resourceConfigurationTemplateRead(in.name, TRUE, in.read))

resourceConfigurationTemplateUpdate(dId, in) ==
    LET desc == IF in.descChanged THEN resourceConfigurationTemplateDescriptionUpdate(in)
                ELSE [calls |-> <<>>, err |-> FALSE]
        opts == IF HasChange(in.o, in.n)
                THEN resourceConfigurationTemplateOptionSettingsUpdate(in)
                ELSE [calls |-> <<>>, err |-> FALSE, reqs |-> <<>>]
    IN  IF desc.err
        THEN HandlerResult(dId, desc.calls, TRUE, {}, "none", <<>>)
        ELSE IF opts.err
        THEN HandlerResult(dId, desc.calls \o opts.calls, TRUE, {}, "none", opts.reqs)
        ELSE WithRead(desc.calls \o opts.calls, opts.reqs,
                      resourceConfigurationTemplateRead(dId, FALSE, in.read))

resourceConfigurationTemplateDelete_swallow(dId, in) ==
    HandlerResult(dId, <<Call("DeleteConfigurationTemplate", in.deleteRes)>>,
                  FALSE, {}, "none", <<>>)

resourceConfigurationTemplateDelete(dId, in) ==
    HandlerResult(dId, <<Call("DeleteConfigurationTemplate", in.deleteRes)>>,
                  in.deleteRes # "ok", {}, "none", <<>>)

\* The inputs of the handlers.  An answer the handler cannot reach is fixed.
TemplateCreateInputs ==
    {in \in [name : {"template1"}, createRes : {"ok", "error"},
             read : TemplateReadInputs] :
        in.createRes # "ok" => in.read = NoRead}

TemplateUpdateInputs ==
    {in \in [descChanged : BOOLEAN, descRes : {"ok", "error"},
             o : SettingSets, n : SettingSets,
             validateRes : {"ok", "error"}, updateRes : {"ok", "error"},
             read : TemplateReadInputs] :
        /\ (~in.descChanged => in.descRes = "ok")
        /\ (in.descRes # "ok" \/ ~HasChange(in.o, in.n) => in.validateRes = "ok")
        /\ (in.validateRes # "ok" \/ in.descRes # "ok" \/ ~HasChange(in.o, in.n)
              => in.updateRes = "ok")
        /\ (in.descRes # "ok" \/ in.validateRes # "ok" \/ in.updateRes # "ok"
              => in.read = NoRead)}

\* What a handler leaves behind.
Returns(k, h, new, in, r) ==
    /\ kind' = k
    /\ id' = r.id
    /\ isNew' = new
    /\ handler' = h
    /\ input' = in
    /\ calls' = r.calls
    /\ hasError' = r.hasError
    /\ attrs' = r.attrs
    /\ lookup' = r.lookup
    /\ reqs' = r.reqs
    /\ finding' = Finding(r)
    /\ snapshots' = <<>>
    /\ snapshot' = NoSnapshot

\* Create: the engine hands over a new ResourceData, marked as new.
ConfigurationTemplateCreate ==
    /\ handler = "none"
    /\ \E in \in TemplateCreateInputs :
        Returns("configuration_template", "resourceConfigurationTemplateCreate", TRUE, in,
                resourceConfigurationTemplateCreate(in))

ConfigurationTemplateRead ==
    /\ handler = "none" /\ kind = "configuration_template" /\ id # ""
    /\ \E in \in [read : TemplateReadInputs] :
        Returns(kind, "resourceConfigurationTemplateRead", FALSE, in,
                [reqs |-> <<>>] @@ resourceConfigurationTemplateRead(id, FALSE, in.read))

ConfigurationTemplateUpdate ==
    /\ handler = "none" /\ kind = "configuration_template" /\ id # ""
    /\ \E in \in TemplateUpdateInputs :
        Returns(kind, "resourceConfigurationTemplateUpdate", FALSE, in,
                resourceConfigurationTemplateUpdate(id, in))

ConfigurationTemplateDelete ==
    /\ handler = "none" /\ kind = "configuration_template" /\ id # ""
    /\ \E in \in [deleteRes : {"ok", "error"}] :
        Returns(kind, "resourceConfigurationTemplateDelete", FALSE, in,
                resourceConfigurationTemplateDelete(id, in))

(***************************************************************************)
(* EC2 transit gateway peering attachment accepter and route table         *)
(***************************************************************************)

\* What a finder (FindTransitGateway...ByID) answers: the result of its
\* describe call (ok, an error with the not-found code, another error) and the
\* error it returns.  It also reports not found for an object the call still
\* returned as deleted.
FinderAnswers ==
    {[res |-> "ok", err |-> "nil"],
     [res |-> "ok", err |-> "NotFoundError"],
     [res |-> "notfound", err |-> "NotFoundError"],
     [res |-> "error", err |-> "APIError"]}

Found == [res |-> "ok", err |-> "nil"]

resourceTransitGatewayPeeringAttachmentAccepterRead(dId, new, in) ==
    LET notFound == NotFound(in.attachment.err, FALSE)
        attachment == Call("FindTransitGatewayPeeringAttachmentByID", in.attachment.res)
        gateway == Call("FindTransitGatewayByID", in.gateway.res)
    IN  IF removedFromState(new, notFound)
        THEN ReadResult("", <<attachment>>, FALSE, {}, "notfound")
        ELSE IF in.attachment.err # "nil"
        THEN ReadResult(dId, <<attachment>>, TRUE, {},
                        IF notFound THEN "notfound" ELSE "error")
        ELSE IF in.gateway.err # "nil"
        THEN ReadResult(dId, <<attachment, gateway>>, TRUE, {}, "found")
        ELSE ReadResult(dId, <<attachment, gateway>>, FALSE,
                        {"peer_account_id", "peer_region", "peer_transit_gateway_id",
                         "transit_gateway_attachment_id", "transit_gateway_id",
                         "tags", "tags_all"},
                        "found")

AccepterReadInputs ==
    {r \in [attachment : FinderAnswers, gateway : FinderAnswers] :
        r.attachment # Found => r.gateway = Found}

resourceTransitGatewayPeeringAttachmentAccepterCreate(in) ==
    LET accept == Call("AcceptTransitGatewayPeeringAttachment", in.acceptRes)
        wait == Call("WaitTransitGatewayPeeringAttachmentAccepted", in.waitRes)
        createTags == Call("CreateTags", in.createTagsRes)
        tagging == IF in.hasTags THEN <<createTags>> ELSE <<>>
    IN  IF in.acceptRes # "ok"
        THEN HandlerResult("", <<accept>>, TRUE, {}, "none", <<>>)
        ELSE IF in.waitRes # "ok"
        THEN HandlerResult(in.transit_gateway_attachment_id, <<accept, wait>>,
                           TRUE, {}, "none", <<>>)
        ELSE IF in.hasTags /\ in.createTagsRes # "ok"
        THEN HandlerResult(in.transit_gateway_attachment_id, <<accept, wait, createTags>>,
                           TRUE, {}, "none", <<>>)
        ELSE WithRead(<<accept, wait>> \o tagging, <<>>,
                      resourceTransitGatewayPeeringAttachmentAccepterRead(
                          in.transit_gateway_attachment_id, TRUE, in.read))

\* The Update handlers of both transit gateway resources: UpdateTags when
\* tags_all changed.
resourceTransitGatewayUpdate(dId, in) ==
    IF in.tagsChanged
    THEN HandlerResult(dId, <<Call("UpdateTags", in.updateTagsRes)>>,
                       in.updateTagsRes # "ok", {}, "none", <<>>)
    ELSE HandlerResult(dId, <<>>, FALSE, {}, "none", <<>>)

resourceTransitGatewayPeeringAttachmentAccepterUpdate(dId, in) ==
    resourceTransitGatewayUpdate(dId, in)

resourceTransitGatewayPeeringAttachmentAccepterDelete(dId, in) ==
    LET delete == Call("DeleteTransitGatewayPeeringAttachment", in.deleteRes)
        wait == Call("WaitTransitGatewayPeeringAttachmentDeleted", in.waitRes)
    IN  IF in.deleteRes = "notfound"
        THEN HandlerResult(dId, <<delete>>, FALSE, {}, "none", <<>>)
        ELSE IF in.deleteRes # "ok"
        THEN HandlerResult(dId, <<delete>>, TRUE, {}, "none", <<>>)
        ELSE HandlerResult(dId, <<delete, wait>>, in.waitRes # "ok", {}, "none", <<>>)

resourceTransitGatewayRouteTableRead(dId, new, in) ==
    LET notFound == NotFound(in.routeTable.err, FALSE)
        routeTable == Call("FindTransitGatewayRouteTableByID", in.routeTable.res)
    IN  IF removedFromState(new, notFound)
        THEN ReadResult("", <<routeTable>>, FALSE, {}, "notfound")
        ELSE IF in.routeTable.err # "nil"
        THEN ReadResult(dId, <<routeTable>>, TRUE, {},
                        IF notFound THEN "notfound" ELSE "error")
        ELSE ReadResult(dId, <<routeTable>>, FALSE,
                        {"arn", "default_association_route_table",
                         "default_propagation_route_table", "transit_gateway_id",
                         "tags", "tags_all"},
                        "found")

resourceTransitGatewayRouteTableCreate(in) ==
    LET create == Call("CreateTransitGatewayRouteTable", in.createRes)
        wait == Call("WaitTransitGatewayRouteTableCreated", in.waitRes)
    IN  IF in.createRes # "ok"
        THEN HandlerResult("", <<create>>, TRUE, {}, "none", <<>>)
        ELSE IF in.waitRes # "ok"
        THEN HandlerResult(in.routeTableId, <<create, wait>>, TRUE, {}, "none", <<>>)
        ELSE WithRead(<<create, wait>>, <<>>,
                      resourceTransitGatewayRouteTableRead(in.routeTableId, TRUE, in.read))

resourceTransitGatewayRouteTableUpdate(dId, in) ==
    resourceTransitGatewayUpdate(dId, in)

resourceTransitGatewayRouteTableDelete_notFoundFails(dId, in) ==
    LET delete == Call("DeleteTransitGatewayRouteTable", in.deleteRes)
        wait == Call("WaitTransitGatewayRouteTableDeleted", in.waitRes)
    IN  IF in.deleteRes # "ok"
        THEN HandlerResult(dId, <<delete>>, TRUE, {}, "none", <<>>)
        ELSE HandlerResult(dId, <<delete, wait>>, in.waitRes # "ok", {}, "none", <<>>)

resourceTransitGatewayRouteTableDelete(dId, in) ==
    LET delete == Call("DeleteTransitGatewayRouteTable", in.deleteRes)
        wait == Call("WaitTransitGatewayRouteTableDeleted", in.waitRes)
    IN  IF in.deleteRes = "notfound"
        THEN HandlerResult(dId, <<delete>>, FALSE, {}, "none", <<>>)
        ELSE IF in.deleteRes # "ok"
        THEN HandlerResult(dId, <<delete>>, TRUE, {}, "none", <<>>)
        ELSE HandlerResult(dId, <<delete, wait>>, in.waitRes # "ok", {}, "none", <<>>)

AccepterCreateInputs ==
    {in \in [transit_gateway_attachment_id : {"tgw-attach-1"},
             acceptRes : {"ok", "error"}, waitRes : {"ok", "error"},
             hasTags : BOOLEAN, createTagsRes : {"ok", "error"},
             read : AccepterReadInputs] :
        /\ (in.acceptRes # "ok" => in.waitRes = "ok")
        /\ (in.waitRes # "ok" \/ in.acceptRes # "ok" \/ ~in.hasTags
              => in.createTagsRes = "ok")
        /\ (in.acceptRes # "ok" \/ in.waitRes # "ok" \/ in.createTagsRes # "ok"
              => in.read = [attachment |-> Found, gateway |-> Found])}

RouteTableCreateInputs ==
    {in \in [routeTableId : {"tgw-rtb-1"},
             createRes : {"ok", "error"}, waitRes : {"ok", "error"},
             hasTags : BOOLEAN,
             read : [routeTable : FinderAnswers]] :
        /\ (in.createRes # "ok" => in.waitRes = "ok")
        /\ (in.createRes # "ok" \/ in.waitRes # "ok" => in.read = [routeTable |-> Found])}

TransitGatewayUpdateInputs ==
    {in \in [tagsChanged : BOOLEAN, updateTagsRes : {"ok", "error"}] :
        ~in.tagsChanged => in.updateTagsRes = "ok"}

TransitGatewayDeleteInputs ==
    {in \in [deleteRes : {"ok", "notfound", "error"}, waitRes : {"ok", "error"}] :
        in.deleteRes # "ok" => in.waitRes = "ok"}

TransitGatewayPeeringAttachmentAccepterCreate ==
    /\ handler = "none"
    /\ \E in \in AccepterCreateInputs :
        Returns("peering_attachment_accepter",
                "resourceTransitGatewayPeeringAttachmentAccepterCreate", TRUE, in,
                resourceTransitGatewayPeeringAttachmentAccepterCreate(in))

TransitGatewayPeeringAttachmentAccepterRead ==
    /\ handler = "none" /\ kind = "peering_attachment_accepter" /\ id # ""
    /\ \E in \in [read : AccepterReadInputs] :
        Returns(kind, "resourceTransitGatewayPeeringAttachmentAccepterRead", FALSE, in,
                [reqs |-> <<>>]
                    @@ resourceTransitGatewayPeeringAttachmentAccepterRead(id, FALSE, in.read))

TransitGatewayPeeringAttachmentAccepterUpdate ==
    /\ handler = "none" /\ kind = "peering_attachment_accepter" /\ id # ""
    /\ \E in \in TransitGatewayUpdateInputs :
        Returns(kind, "resourceTransitGatewayPeeringAttachmentAccepterUpdate", FALSE, in,
                resourceTransitGatewayPeeringAttachmentAccepterUpdate(id, in))

TransitGatewayPeeringAttachmentAccepterDelete ==
    /\ handler = "none" /\ kind = "peering_attachment_accepter" /\ id # ""
    /\ \E in \in TransitGatewayDeleteInputs :
        Returns(kind, "resourceTransitGatewayPeeringAttachmentAccepterDelete", FALSE, in,
                resourceTransitGatewayPeeringAttachmentAccepterDelete(id, in))

TransitGatewayRouteTableCreate ==
    /\ handler = "none"
    /\ \E in \in RouteTableCreateInputs :
        Returns("route_table", "resourceTransitGatewayRouteTableCreate", TRUE, in,
                resourceTransitGatewayRouteTableCreate(in))

TransitGatewayRouteTableRead ==
    /\ handler = "none" /\ kind = "route_table" /\ id # ""
    /\ \E in \in [read : [routeTable : FinderAnswers]] :
        Returns(kind, "resourceTransitGatewayRouteTableRead", FALSE, in,
                [reqs |-> <<>>] @@ resourceTransitGatewayRouteTableRead(id, FALSE, in.read))

TransitGatewayRouteTableUpdate ==
    /\ handler = "none" /\ kind = "route_table" /\ id # ""
    /\ \E in \in TransitGatewayUpdateInputs :
        Returns(kind, "resourceTransitGatewayRouteTableUpdate", FALSE, in,
                resourceTransitGatewayRouteTableUpdate(id, in))

TransitGatewayRouteTableDelete ==
    /\ handler = "none" /\ kind = "route_table" /\ id # ""
    /\ \E in \in TransitGatewayDeleteInputs :
        Returns(kind, "resourceTransitGatewayRouteTableDelete", FALSE, in,
                resourceTransitGatewayRouteTableDelete(id, in))

\* The engine takes the handler's result: the id stays with the resource, the
\* rest of the invocation is gone.
EngineTakesResult ==
    /\ handler # "none"
    /\ handler' = "none"
    /\ isNew' = FALSE
    /\ input' = [none |-> TRUE]
    /\ calls' = <<>>
    /\ hasError' = FALSE
    /\ attrs' = {}
    /\ lookup' = "none"
    /\ reqs' = <<>>
    /\ finding' = NoFinding
    /\ snapshots' = <<>>
    /\ snapshot' = NoSnapshot
    /\ UNCHANGED <<kind, id>>

Init ==
    /\ kind = "none"
    /\ id = ""
    /\ isNew = FALSE
    /\ handler = "none"
    /\ input = [none |-> TRUE]
    /\ calls = <<>>
    /\ hasError = FALSE
    /\ attrs = {}
    /\ lookup = "none"
    /\ reqs = <<>>
    /\ finding = NoFinding
    /\ snapshots = <<>>
    /\ snapshot = NoSnapshot

Next ==
    \/ DataSourceClusterSnapshotRead
    \/ ConfigurationTemplateCreate
    \/ ConfigurationTemplateRead
    \/ ConfigurationTemplateUpdate
    \/ ConfigurationTemplateDelete
    \/ TransitGatewayPeeringAttachmentAccepterCreate
    \/ TransitGatewayPeeringAttachmentAccepterRead
    \/ TransitGatewayPeeringAttachmentAccepterUpdate
    \/ TransitGatewayPeeringAttachmentAccepterDelete
    \/ TransitGatewayRouteTableCreate
    \/ TransitGatewayRouteTableRead
    \/ TransitGatewayRouteTableUpdate
    \/ TransitGatewayRouteTableDelete
    \/ EngineTakesResult

Spec == Init /\ [][Next]_vars

(***************************************************************************)
(* Properties of the cluster snapshot data source                          *)
(***************************************************************************)

DsRan == handler = "dataSourceClusterSnapshotRead"

\* The read reached the describe call and the call succeeded.
DsDescribed ==
    /\ DsRan
    /\ GetOk(input.db_cluster_identifier) \/ GetOk(input.db_cluster_snapshot_identifier)
    /\ input.describeRes = "ok"

\* most_recent is true and the describe call returned more than one snapshot.
MostRecentCase == DsDescribed /\ input.most_recent /\ Len(input.resp) > 1

\* C1: with most_recent and more than one snapshot returned, of which at
\* least one has a creation time, the selected snapshot is one of the returned
\* snapshots, has a creation time, and no returned snapshot has a strictly
\* later creation time.
C1_MostRecentSelected ==
    (MostRecentCase /\ \E i \in 1..Len(input.resp) : input.resp[i].hasTime)
        => /\ \E i \in 1..Len(input.resp) : input.resp[i] = snapshot
           /\ snapshot.hasTime
           /\ \A i \in 1..Len(input.resp) :
                 input.resp[i].hasTime => input.resp[i].time <= snapshot.time
           /\ id = snapshot.id

\* Witness of C1: the most recent snapshot was not the last of the response,
\* and a snapshot without a creation time was.
C1_Witness ==
    /\ MostRecentCase
    /\ Len(input.resp) = 3
    /\ input.resp[1].hasTime /\ input.resp[2].hasTime /\ ~input.resp[3].hasTime
    /\ input.resp[1].time > input.resp[2].time
    /\ snapshot = input.resp[1]

\* C2: after the sort, the slice is a permutation of the response in which
\* every snapshot without a creation time precedes every snapshot with one,
\* and the snapshots with a creation time are in non-decreasing time order.
C2_NullableSort ==
    MostRecentCase
        => /\ Len(snapshots) = Len(input.resp)
           /\ {snapshots[i] : i \in 1..Len(snapshots)}
                = {input.resp[i] : i \in 1..Len(input.resp)}
           /\ \A i, j \in 1..Len(snapshots) :
                 (i < j /\ snapshots[i].hasTime)
                    => snapshots[j].hasTime /\ snapshots[i].time <= snapshots[j].time

\* Witness of C2: two snapshots without a creation time behind one with a
\* creation time were moved in front of it.
C2_Witness ==
    /\ MostRecentCase
    /\ Len(input.resp) = 3
    /\ input.resp[1].hasTime /\ ~input.resp[2].hasTime /\ ~input.resp[3].hasTime
    /\ ~snapshots[1].hasTime /\ ~snapshots[2].hasTime /\ snapshots[3] = input.resp[1]

\* The read failed before it selected a snapshot: it issued no ListTags call.
DsFailedBeforeSelection ==
    DsRan /\ hasError /\ \A i \in 1..Len(calls) : calls[i].op # "ListTags"

\* The three outcomes of C6 that both its original and its amended form state.
DsResolvesOneOrFails ==
    DsDescribed
        => /\ Len(input.resp) = 0 => hasError
           /\ Len(input.resp) = 1
                 => snapshot = input.resp[1] /\ id = input.resp[1].id
           /\ (Len(input.resp) > 1 /\ ~input.most_recent) => hasError

\* C6 as stated: zero snapshots is an error, exactly one is selected whatever
\* most_recent is, several without most_recent is an error, and in every
\* error outcome the ID and the computed attributes are left unset.
C6_Original ==
    /\ DsResolvesOneOrFails
    /\ (DsRan /\ hasError) => (id = "" /\ attrs = {})

\* C6 amended: zero snapshots is an error, exactly one is selected whatever
\* most_recent is, several without most_recent is an error; every error
\* outcome before the selection leaves the ID and the computed attributes
\* unset, and a failed ListTags returns its error with the ID and the
\* snapshot's attributes already set.
C6_ResolvesOneOrFails ==
    /\ DsResolvesOneOrFails
    /\ DsFailedBeforeSelection => (id = "" /\ attrs = {} /\ snapshot = NoSnapshot)
    /\ (DsRan /\ hasError /\ ~DsFailedBeforeSelection)
          => /\ calls[Len(calls)] = Call("ListTags", "error")
             /\ id = snapshot.id /\ id # ""
             /\ attrs = SnapshotAttrs(snapshot)

\* Witness of C6: several snapshots came back, most_recent is false, and the
\* read failed with nothing set.
C6_Witness ==
    /\ DsDescribed
    /\ Len(input.resp) > 1 /\ ~input.most_recent
    /\ hasError /\ id = "" /\ attrs = {}

\* C7: with neither db_cluster_identifier nor db_cluster_snapshot_identifier
\* set the read returns an error and issues no SDK call, whatever the other
\* arguments are.
C7_RequiresCriterion ==
    (DsRan /\ ~GetOk(input.db_cluster_identifier)
           /\ ~GetOk(input.db_cluster_snapshot_identifier))
        => (hasError /\ calls = <<>> /\ id = "" /\ attrs = {})

\* Witness of C7: no criterion, every other argument set, and the read failed
\* without a call.
C7_Witness ==
    /\ DsRan
    /\ ~GetOk(input.db_cluster_identifier)
    /\ ~GetOk(input.db_cluster_snapshot_identifier)
    /\ input.most_recent /\ input.include_shared /\ input.include_public
    /\ input.snapshot_type = "manual"
    /\ hasError /\ calls = <<>>

(***************************************************************************)
(* Properties of the option settings update                                *)
(***************************************************************************)

TemplateUpdateRan == handler = "resourceConfigurationTemplateUpdate"

\* The option settings update sent its UpdateConfigurationTemplate request.
OptionSettingsSent == TemplateUpdateRan /\ Len(reqs) = 1

\* C3: no entry of the request's OptionsToRemove has the namespace and the
\* option name of an entry of the request's OptionSettings.
C3_RemovalsFilteredByKey ==
    OptionSettingsSent
        => \A i \in 1..Len(reqs[1].OptionsToRemove) :
             \A j \in 1..Len(reqs[1].OptionSettings) :
                ~sameOption(reqs[1].OptionsToRemove[i], reqs[1].OptionSettings[j])

\* C4: every setting of the old set that is not in the new set and has the
\* namespace and option name of no added setting is in the request's
\* OptionsToRemove, also when nothing is added.
C4_RemovedSettingsSent ==
    OptionSettingsSent
        => \A s \in input.o \ input.n :
             (\A a \in input.n \ input.o : ~sameOption(s, a))
                => \E i \in 1..Len(reqs[1].OptionsToRemove) :
                      reqs[1].OptionsToRemove[i] = OptionSpecification(s)

\* The update handler reached the option settings update with a changed
\* "setting" attribute.
SettingChangedCase ==
    /\ TemplateUpdateRan
    /\ HasChange(input.o, input.n)
    /\ input.descChanged => input.descRes = "ok"

\* The calls the handler issued before the option settings update.
CallsBefore == IF input.descChanged THEN 1 ELSE 0

\* C10: when the setting attribute changed, the option settings update first
\* calls ValidateConfigurationSettings; if that fails it returns the error and
\* issues no update call; if it succeeds it issues exactly one
\* UpdateConfigurationTemplate call, whose request carries the additions and
\* the removals.
C10_ValidateThenOneUpdate ==
    SettingChangedCase
        => /\ Len(calls) > CallsBefore
           /\ calls[CallsBefore + 1] = Call("ValidateConfigurationSettings", input.validateRes)
           /\ input.validateRes # "ok"
                => (Len(calls) = CallsBefore + 1 /\ reqs = <<>> /\ hasError)
           /\ input.validateRes = "ok"
                => /\ {i \in (CallsBefore + 1)..Len(calls) :
                         calls[i].op = "UpdateConfigurationTemplate"} = {CallsBefore + 2}
                   /\ calls[CallsBefore + 2].res = input.updateRes
                   /\ Len(reqs) = 1
                   /\ {reqs[1].OptionSettings[j] : j \in 1..Len(reqs[1].OptionSettings)}
                        = input.n \ input.o
                   /\ {reqs[1].OptionsToRemove[i] : i \in 1..Len(reqs[1].OptionsToRemove)}
                        \subseteq {OptionSpecification(x) : x \in input.o \ input.n}

\* Witness of C10: after a description update, validation succeeded and one
\* request went out with an addition and a removal.
C10_Witness ==
    /\ SettingChangedCase
    /\ input.descChanged
    /\ input.validateRes = "ok"
    /\ Len(reqs) = 1
    /\ Len(reqs[1].OptionSettings) > 0
    /\ Len(reqs[1].OptionsToRemove) > 0

(***************************************************************************)
(* Properties of the handlers' error handling                              *)
(***************************************************************************)

CreateHandlers ==
    {"resourceConfigurationTemplateCreate",
     "resourceTransitGatewayPeeringAttachmentAccepterCreate",
     "resourceTransitGatewayRouteTableCreate"}

ReadHandlers ==
    {"resourceConfigurationTemplateRead",
     "resourceTransitGatewayPeeringAttachmentAccepterRead",
     "resourceTransitGatewayRouteTableRead"}

TransitGatewayDeleteHandlers ==
    {"resourceTransitGatewayPeeringAttachmentAccepterDelete",
     "resourceTransitGatewayRouteTableDelete"}

\* An SDK call of the handler returned an error.
SdkFailed == \E i \in 1..Len(calls) : calls[i].res # "ok"

\* The Read handler, run by the engine or as the read-back of the template's
\* Update, found a resource that is not new gone and dropped it from the state:
\* its lookup was the last call, and every call before it succeeded.
ReadDroppedVanished ==
    /\ handler \in ReadHandlers \cup {"resourceConfigurationTemplateUpdate"}
    /\ ~isNew
    /\ lookup = "notfound"
    /\ id = ""
    /\ \A i \in 1..(Len(calls) - 1) : calls[i].res = "ok"

\* A Delete handler of a transit gateway resource whose delete call failed
\* with the resource's not-found error code.
DeleteFoundVanished ==
    /\ handler \in TransitGatewayDeleteHandlers
    /\ Len(calls) = 1
    /\ calls[1].res = "notfound"

\* C5 as stated: whenever an SDK call issued by a handler returns an error,
\* the handler returns error diagnostics.
C5_Original == (handler # "none" /\ SdkFailed) => hasError

\* C5 amended: whenever an SDK call issued by a handler returns an error, the
\* handler returns error diagnostics, unless a Read of a resource that is not
\* new got not-found from the lookup of the resource and dropped it from the
\* state, or a transit gateway Delete got the not-found error code from its
\* delete call.
C5_ErrorsPropagate ==
    (handler # "none" /\ SdkFailed)
        => (hasError \/ ReadDroppedVanished \/ DeleteFoundVanished)

\* Witness of C5: the accepter's Create returned the error of its third call,
\* CreateTags.
C5_Witness ==
    /\ handler = "resourceTransitGatewayPeeringAttachmentAccepterCreate"
    /\ Len(calls) = 3
    /\ calls[3] = Call("CreateTags", "error")
    /\ hasError

\* The lookup of the resource itself reported not-found, as the inputs of the
\* Read handler tell.
LookupReportedNotFound ==
    \/ /\ handler = "resourceConfigurationTemplateRead"
       /\ NotFound(FindConfigurationSettingsByTwoPartKey(input.read.describe).err,
                   input.read.resultErrorsAreNotFound)
    \/ /\ handler = "resourceTransitGatewayPeeringAttachmentAccepterRead"
       /\ input.read.attachment.err = "NotFoundError"
    \/ /\ handler = "resourceTransitGatewayRouteTableRead"
       /\ input.read.routeTable.err = "NotFoundError"

\* C8: in each Read handler, when the resource is not new and the lookup of
\* the resource itself reports not-found, the handler clears the ID, returns
\* no error, sets no attribute and issues no further call.
C8_ReadDropsVanished ==
    (handler \in ReadHandlers /\ ~isNew /\ LookupReportedNotFound)
        => (id = "" /\ ~hasError /\ attrs = {} /\ Len(calls) = 1)

\* Witness of C8: the template's describe call failed with
\* InvalidParameterValue "No Configuration Template named", and the Read
\* cleared the ID without an error.
C8_Witness ==
    /\ handler = "resourceConfigurationTemplateRead"
    /\ input.read.describe.err
         = [code |-> "InvalidParameterValue", message |-> "No Configuration Template named"]
    /\ id = "" /\ ~hasError /\ attrs = {}

\* C9: in every Create handler the first call is the create or accept call;
\* if it fails the handler returns error diagnostics, the ID stays empty and
\* no other call (wait, tags, read-back) is issued; the ID is set only when
\* the call succeeded.
C9_IdAfterCreate ==
    handler \in CreateHandlers
        => /\ Len(calls) >= 1
           /\ calls[1].op \in {"CreateConfigurationTemplate",
                               "AcceptTransitGatewayPeeringAttachment",
                               "CreateTransitGatewayRouteTable"}
           /\ calls[1].res # "ok"
                => (hasError /\ id = "" /\ Len(calls) = 1 /\ attrs = {})
           /\ id # "" => calls[1].res = "ok"

\* Witness of C9: the route table's create call failed.
C9_Witness ==
    /\ handler = "resourceTransitGatewayRouteTableCreate"
    /\ calls = <<Call("CreateTransitGatewayRouteTable", "error")>>
    /\ hasError /\ id = ""

(***************************************************************************)
(* Properties of the configuration template's finder                       *)
(***************************************************************************)

\* The Read step of a configuration template handler called the finder.
FinderCalled == finding.err # "none"

\* The API error names a missing template or a missing application.
NamesMissingObject(e) ==
    /\ e.code = "InvalidParameterValue"
    /\ e.message \in {"No Configuration Template named", "No Application named"}

\* The describe call succeeded and its output holds a first entry that is
\* not nil.
HasFirstEntry(a) ==
    /\ a.err = NoError
    /\ ~a.output.isNil
    /\ Len(a.output.ConfigurationSettings) >= 1
    /\ a.output.ConfigurationSettings[1] # "nil"

\* C11: the finder returns a settings description and no error exactly when
\* the describe call succeeded with a single entry that is not nil; otherwise
\* it returns a nil description with an error: not-found for an
\* InvalidParameterValue error naming a missing template or application, the
\* API error for any other API error, empty-result for a nil or empty output
\* or a nil first entry, and too-many-results for more than one entry behind
\* a first entry that is not nil.
C11_FinderResult ==
    FinderCalled
        => LET a == input.read.describe
               entries == a.output.ConfigurationSettings
           IN  /\ (finding.err = "nil") <=> (HasFirstEntry(a) /\ Len(entries) = 1)
               /\ finding.err = "nil" => finding.settings = entries[1]
               /\ finding.err # "nil" => finding.settings = "nil"
               /\ (finding.err = "NotFoundError") <=> NamesMissingObject(a.err)
               /\ (finding.err = "APIError")
                     <=> (a.err # NoError /\ ~NamesMissingObject(a.err))
               /\ (finding.err = "EmptyResultError")
                     <=> (a.err = NoError /\ ~HasFirstEntry(a))
               /\ (finding.err = "TooManyResultsError")
                     <=> (HasFirstEntry(a) /\ Len(entries) > 1)

\* Witness of C11: the describe call returned a settings description followed
\* by a nil entry, and the finder returned the too-many-results error.
C11_Witness ==
    /\ FinderCalled
    /\ input.read.describe.err = NoError
    /\ input.read.describe.output.ConfigurationSettings = <<"settings", "nil">>
    /\ finding = [settings |-> "nil", err |-> "TooManyResultsError"]

(***************************************************************************)
(* Properties of the transit gateway Delete handlers                       *)
(***************************************************************************)

\* The handler issued a wait for the deleted state.
WaitedForDeletion ==
    \E i \in 1..Len(calls) :
        calls[i].op \in {"WaitTransitGatewayPeeringAttachmentDeleted",
                         "WaitTransitGatewayRouteTableDeleted"}

\* C12: in the Delete handlers of the route table and the accepter the first
\* call is the delete call; if it fails with the not-found code the handler
\* succeeds without waiting; if it fails otherwise the handler returns the
\* error without waiting; if it succeeds the handler waits for the deleted
\* state and returns an error exactly when the wait fails.
C12_DeleteThenWait ==
    handler \in TransitGatewayDeleteHandlers
        => /\ Len(calls) >= 1
           /\ calls[1] = Call(IF handler = "resourceTransitGatewayRouteTableDelete"
                              THEN "DeleteTransitGatewayRouteTable"
                              ELSE "DeleteTransitGatewayPeeringAttachment",
                              input.deleteRes)
           /\ input.deleteRes = "notfound" => (~hasError /\ ~WaitedForDeletion)
           /\ input.deleteRes = "error" => (hasError /\ ~WaitedForDeletion)
           /\ input.deleteRes # "ok" => Len(calls) = 1
           /\ input.deleteRes = "ok"
                => /\ Len(calls) = 2
                   /\ calls[2] = Call(IF handler = "resourceTransitGatewayRouteTableDelete"
                                      THEN "WaitTransitGatewayRouteTableDeleted"
                                      ELSE "WaitTransitGatewayPeeringAttachmentDeleted",
                                      input.waitRes)
                   /\ hasError <=> input.waitRes # "ok"

\* Witness of C12: the route table was already gone, and its Delete succeeded
\* after the one call.
C12_Witness ==
    /\ handler = "resourceTransitGatewayRouteTableDelete"
    /\ calls = <<Call("DeleteTransitGatewayRouteTable", "notfound")>>
    /\ ~hasError

====
